---- MODULE Spec2Model ----
(***************************************************************************)
(* Model of the three planning functions of src/src/App.jsx: ladderPlan,   *)
(* rpPercentPlan and rpFixedDropPlan, with the rounding helpers they       *)
(* share.                                                                  *)
(*                                                                         *)
(* Numbers.  Every weight is an integer count of units of 1/200 kg, so     *)
(* that the inputs (multiples of 0.5 kg), the percentages (0.70 .. 0.95 of *)
(* a multiple of 0.5 kg) and the 2.5 kg plate step are all exact.  On      *)
(* these inputs the IEEE doubles of the program give the same results as   *)
(* the exact arithmetic below: sums and differences of multiples of 0.5    *)
(* are exact, and no quotient or product falls within rounding error of a  *)
(* .5 tie or of a comparison boundary without lying on it.  The 1e-6       *)
(* tolerance of the ladder loop is smaller than one unit, so               *)
(* w <= targetTop + 1e-6 is w <= targetTop here.                           *)
(***************************************************************************)
EXTENDS Integers, Sequences, FiniteSets, TLC

\* units per kg: two input steps of 0.5 kg, each split in hundredths
UnitsPerKg == 2 * 100
HalfKg == UnitsPerKg \div 2

\* ---- bounds of the explored inputs (in steps of 0.5 kg, or counts) ----
MaxDailyMax == 60
MinDailyMax == 12
MaxIncrement == 20
MinIncrement == 2
MaxRepCap == 8
MaxDrop == 20
MinDrop == 2
MaxSets == 4

DailyMaxes == {h * HalfKg : h \in (0 - MinDailyMax)..MaxDailyMax}
Increments == {h * HalfKg : h \in (0 - MinIncrement)..MaxIncrement}
RepCaps == 0..MaxRepCap
Bodyweights == {25 * UnitsPerKg, 80 * UnitsPerKg}
Drops == {h * HalfKg : h \in (0 - MinDrop)..MaxDrop}
SetCounts == 0..MaxSets
RepSchemes == {<<3, 5, 7, 9>>, <<3, 5>>, <<5>>}

\* ---- Utils ----
\* floor(a / b) for b # 0
FloorDiv(a, b) == IF b > 0 THEN a \div b ELSE (0 - a) \div (0 - b)

\* Math.round(a / b): nearest integer, ties toward +infinity
MathRound(a, b) == FloorDiv(2 * a + b, 2 * b)

Abs(n) == IF n < 0 THEN 0 - n ELSE n
Max(a, b) == IF a >= b THEN a ELSE b
Min(a, b) == IF a <= b THEN a ELSE b

\* Math.round((n + EPSILON) * 100) / 100: nearest 0.01 kg, ties up
round2(n) == MathRound(n * 100, UnitsPerKg) * (UnitsPerKg \div 100)

\* Math.round(n / 2.5) * 2.5: nearest multiple of 2.5 kg, ties up
roundToNearest2point5(n) == MathRound(n, 5 * HalfKg) * (5 * HalfKg)

BAR == 20 * UnitsPerKg

\* the optional values of the plans: null, or a value
Null == {}
Some(x) == {x}

\* ---- Core calculations: ladderPlan ----
\* line 38: !dailyMax || !increment
Falsy(n) == n = 0

\* lines 45-53: the start point of a pull-up ladder
PullupStart(targetTop, increment, startRepCap) ==
    LET maxRungsFromZero == 1 + FloorDiv(targetTop, increment)
        startReps == Max(1, Min(startRepCap, maxRungsFromZero))
        startWeight == targetTop - increment * (startReps - 1)
    IN  [reps |-> startReps,
         weight |-> IF startWeight < 0 THEN 0 ELSE startWeight]

\* lines 54-69: the start point of a barbell ladder
BarbellStart(targetTop, increment, startRepCap) ==
    LET base == BAR
        r0Rounded == 1 + MathRound(targetTop - base, increment)
        cappedWeight == targetTop - increment * (startRepCap - 1)
    IN  IF r0Rounded <= startRepCap /\ r0Rounded >= 1
        THEN [reps |-> r0Rounded, weight |-> base]
        ELSE IF cappedWeight < BAR
             THEN [reps |-> Max(1, Min(startRepCap,
                                1 + FloorDiv(targetTop - BAR, increment))),
                   weight |-> BAR]
             ELSE [reps |-> startRepCap, weight |-> cappedWeight]

GuardLimit == 400

\* lines 73-82: build the ladder upward to targetTop
RECURSIVE LadderLoop(_, _, _, _, _, _)
LadderLoop(sets, reps, w, guard, targetTop, increment) ==
    IF reps >= 1 /\ w <= targetTop /\ guard < GuardLimit
    THEN LadderLoop(Append(sets, [weight |-> roundToNearest2point5(w), reps |-> reps]),
                    reps - 1, w + increment, guard + 1, targetTop, increment)
    ELSE sets

\* lines 85-88: ensure the final single at targetTop
FinalSingle(sets, targetTop) ==
    LET hasLast == Len(sets) > 0
        last == sets[Len(sets)]
    IN  IF ~hasLast \/ Abs(last.weight - targetTop) > 5 * HalfKg \/ last.reps # 1
        THEN IF ~hasLast \/ targetTop > last.weight
             THEN Append(sets, [weight |-> roundToNearest2point5(targetTop), reps |-> 1])
             ELSE sets
        ELSE sets

\* line 92: sets.reduce((sum, s) => sum + s.weight * s.reps, 0)
RECURSIVE SumTonnage(_, _)
SumTonnage(sets, n) ==
    IF n = 0 THEN 0 ELSE SumTonnage(sets, n - 1) + sets[n].weight * sets[n].reps

\* line 95: the external load column of a pull-up ladder
WithExternal(sets, bodyweight) ==
    [i \in 1..Len(sets) |->
        [weight |-> sets[i].weight, reps |-> sets[i].reps,
         external |-> round2(sets[i].weight - bodyweight)]]

ladderPlan(dailyMax, increment, startRepCap, isPullup, bodyweight) ==
    IF Falsy(dailyMax) \/ Falsy(increment)
    THEN [sets |-> <<>>, tonnage |-> 0, start |-> Null]
    ELSE LET targetTop == dailyMax
             st == IF isPullup THEN PullupStart(targetTop, increment, startRepCap)
                               ELSE BarbellStart(targetTop, increment, startRepCap)
             sets == FinalSingle(LadderLoop(<<>>, st.reps, st.weight, 0, targetTop, increment),
                                 targetTop)
         IN  [sets |-> IF isPullup THEN WithExternal(sets, bodyweight) ELSE sets,
              tonnage |-> round2(SumTonnage(sets, Len(sets))),
              start |-> Some([weight |-> roundToNearest2point5(st.weight), reps |-> st.reps])]

\* ---- Core calculations: rpPercentPlan ----
\* lines 106-112: percentages are held as integers, 90 for 0.9; a reps
\* string such as "1+" is held as its sequence of characters
\* the percentage table with the 85% and 80% rows exchanged
schemeOutOfOrder ==
    << [pct |-> 90, reps |-> <<"1", "+">>],
       [pct |-> 80, reps |-> <<"2", "+">>],
       [pct |-> 85, reps |-> <<"3", "+">>],
       [pct |-> 75, reps |-> <<"4", "+">>],
       [pct |-> 70, reps |-> <<"5", "+">>] >>

scheme ==
    << [pct |-> 90, reps |-> <<"1", "+">>],
       [pct |-> 85, reps |-> <<"2", "+">>],
       [pct |-> 80, reps |-> <<"3", "+">>],
       [pct |-> 75, reps |-> <<"4", "+">>],
       [pct |-> 70, reps |-> <<"5", "+">>] >>

DigitValue ==
    [c \in {"0", "1", "2", "3", "4", "5", "6", "7", "8", "9"} |->
        CASE c = "0" -> 0 [] c = "1" -> 1 [] c = "2" -> 2 [] c = "3" -> 3
          [] c = "4" -> 4 [] c = "5" -> 5 [] c = "6" -> 6 [] c = "7" -> 7
          [] c = "8" -> 8 [] c = "9" -> 9]

\* parseInt(str) || 0: the leading digits of str, 0 when there are none
RECURSIVE ParseDigits(_, _, _)
ParseDigits(str, i, acc) ==
    IF i <= Len(str) /\ str[i] \in DOMAIN DigitValue
    THEN ParseDigits(str, i + 1, 10 * acc + DigitValue[str[i]])
    ELSE acc

parseInt(str) == ParseDigits(str, 1, 0)

\* s.pct * dailyMax, in units
PctOf(pct, dailyMax) == (pct * dailyMax) \div 100

\* lines 113-117
PercentRows(dailyMax) ==
    [i \in 1..Len(scheme) |->
        [weight |-> roundToNearest2point5(PctOf(scheme[i].pct, dailyMax)),
         reps |-> scheme[i].reps,
         note |-> scheme[i].pct]]

\* line 118: sets.reduce((a, b) => a + b.weight * (parseInt(b.reps) || 0), 0)
RECURSIVE SumPercentTonnage(_, _)
SumPercentTonnage(sets, n) ==
    IF n = 0 THEN 0
    ELSE SumPercentTonnage(sets, n - 1) + sets[n].weight * parseInt(sets[n].reps)

\* line 119: s.weight >= 0.8 * dailyMax
IsHeavy(s, dailyMax) == 10 * s.weight >= 8 * dailyMax

\* line 119: sets.filter(...).reduce((a, b) => a + (parseInt(b.reps) || 0), 0)
RECURSIVE SumHeavyReps(_, _, _)
SumHeavyReps(sets, n, dailyMax) ==
    IF n = 0 THEN 0
    ELSE SumHeavyReps(sets, n - 1, dailyMax)
         + (IF IsHeavy(sets[n], dailyMax) THEN parseInt(sets[n].reps) ELSE 0)

rpPercentPlan(dailyMax) ==
    IF Falsy(dailyMax)
    THEN [sets |-> <<>>, tonnage |-> 0, heavyReps |-> 0]
    ELSE LET sets == PercentRows(dailyMax)
         IN  [sets |-> sets,
              tonnage |-> round2(SumPercentTonnage(sets, Len(sets))),
              heavyReps |-> SumHeavyReps(sets, Len(sets), dailyMax)]

\* ---- Core calculations: rpFixedDropPlan ----
\* line 131: repScheme[i] ?? repScheme[repScheme.length - 1], i counted from 0
RepsFor(repScheme, i) ==
    IF i + 1 <= Len(repScheme) THEN repScheme[i + 1] ELSE repScheme[Len(repScheme)]

\* lines 128-133: iteration i of the loop, entered with running weight w
RECURSIVE DropLoop(_, _, _, _, _, _)

\* the loop with the early stop written w < 0 for w <= 0
DropLoopStopBelowZero(rows, i, w, drop, sets, repScheme) ==
    IF i < sets
    THEN LET w2 == w - drop
         IN  IF w2 < 0
             THEN rows
             ELSE DropLoop(Append(rows, [weight |-> roundToNearest2point5(w2),
                                         reps |-> RepsFor(repScheme, i),
                                         note |-> drop]),
                           i + 1, w2, drop, sets, repScheme)
    ELSE rows

DropLoop(rows, i, w, drop, sets, repScheme) ==
    IF i < sets
    THEN LET w2 == w - drop
         IN  IF w2 <= 0
             THEN rows
             ELSE DropLoop(Append(rows, [weight |-> roundToNearest2point5(w2),
                                         reps |-> RepsFor(repScheme, i),
                                         note |-> drop]),
                           i + 1, w2, drop, sets, repScheme)
    ELSE rows

rpFixedDropPlan(dailyMax, drop, sets, repScheme) ==
    IF Falsy(dailyMax)
    THEN [topSingle |-> Null, sets |-> <<>>, tonnage |-> 0]
    ELSE LET topSingle == roundToNearest2point5(PctOf(95, dailyMax))
             rows == DropLoop(<<>>, 0, topSingle, drop, sets, repScheme)
         IN  [topSingle |-> Some(topSingle),
              sets |-> rows,
              tonnage |-> round2(topSingle * 1 + SumTonnage(rows, Len(rows)))]

\* ---- The calls ----
VARIABLES fn, args, pc, plan

vars == <<fn, args, pc, plan>>

\* the parameter defaults of lines 37 and 123
DefaultStartRepCap == 12
DefaultBodyweight == 80 * UnitsPerKg
DefaultDrop == 10 * UnitsPerKg
DefaultSets == 4
DefaultRepScheme == <<3, 5, 7, 9>>

LadderArgs ==
    [dailyMax : DailyMaxes, increment : Increments,
     startRepCap : RepCaps \cup {DefaultStartRepCap},
     isPullup : {FALSE}, bodyweight : {DefaultBodyweight}]
    \cup
    [dailyMax : DailyMaxes, increment : Increments,
     startRepCap : RepCaps \cup {DefaultStartRepCap},
     isPullup : {TRUE}, bodyweight : Bodyweights]

PercentArgs == [dailyMax : DailyMaxes]

DropArgs ==
    [dailyMax : DailyMaxes, drop : Drops \cup {DefaultDrop},
     sets : SetCounts \cup {DefaultSets}, repScheme : RepSchemes \cup {DefaultRepScheme}]

NoPlan == [sets |-> <<>>]

Init ==
    /\ pc = "call"
    /\ plan = NoPlan
    /\ \/ fn = "ladderPlan" /\ args \in LadderArgs
       \/ fn = "rpPercentPlan" /\ args \in PercentArgs
       \/ fn = "rpFixedDropPlan" /\ args \in DropArgs

CallLadderPlan ==
    /\ pc = "call" /\ fn = "ladderPlan"
    /\ plan' = ladderPlan(args.dailyMax, args.increment, args.startRepCap,
                          args.isPullup, args.bodyweight)
    /\ pc' = "returned"
    /\ UNCHANGED <<fn, args>>

CallRpPercentPlan ==
    /\ pc = "call" /\ fn = "rpPercentPlan"
    /\ plan' = rpPercentPlan(args.dailyMax)
    /\ pc' = "returned"
    /\ UNCHANGED <<fn, args>>

CallRpFixedDropPlan ==
    /\ pc = "call" /\ fn = "rpFixedDropPlan"
    /\ plan' = rpFixedDropPlan(args.dailyMax, args.drop, args.sets, args.repScheme)
    /\ pc' = "returned"
    /\ UNCHANGED <<fn, args>>

Next == CallLadderPlan \/ CallRpPercentPlan \/ CallRpFixedDropPlan

Spec == Init /\ [][Next]_vars

\* ---- Properties ----
Returned(f) == pc = "returned" /\ fn = f

LastRow(sets) == sets[Len(sets)]

\* C1: a barbell ladder for dailyMax above the bar and a positive increment
\* ends with a row of 1 rep whose weight is within 2.5 kg of dailyMax.
C1_BarbellEndsWithSingleAtMax ==
    (Returned("ladderPlan") /\ ~args.isPullup
        /\ args.dailyMax > BAR /\ args.increment > 0)
    => /\ Len(plan.sets) > 0
       /\ LastRow(plan.sets).reps = 1
       /\ Abs(LastRow(plan.sets).weight - args.dailyMax) <= 5 * HalfKg

\* C2: no row of a barbell ladder weighs less than the 20 kg bar, whatever
\* the non-zero dailyMax and increment.
C2_BarbellRowsAtLeastBar ==
    (Returned("ladderPlan") /\ ~args.isPullup
        /\ args.dailyMax # 0 /\ args.increment # 0)
    => \A i \in 1..Len(plan.sets) : plan.sets[i].weight >= BAR

\* C3: no row of a pull-up ladder has a negative weight, whatever the
\* non-zero dailyMax and increment.
C3_PullupRowsNonNegative ==
    (Returned("ladderPlan") /\ args.isPullup
        /\ args.dailyMax # 0 /\ args.increment # 0)
    => \A i \in 1..Len(plan.sets) : plan.sets[i].weight >= 0

\* C4: a pull-up ladder with positive increment, startRepCap >= 1 and a
\* non-zero dailyMax below bodyweight has a row whose external load
\* (rounded weight - bodyweight) is below 0.
C4_AssistedPullupShowsNegativeExternal ==
    (Returned("ladderPlan") /\ args.isPullup
        /\ args.increment > 0 /\ args.startRepCap >= 1
        /\ args.dailyMax # 0 /\ args.dailyMax < args.bodyweight)
    => \E i \in 1..Len(plan.sets) : plan.sets[i].external < 0

\* C5, as stated: for a positive dailyMax rpPercentPlan returns 5 rows whose
\* weights strictly decrease from the first row to the last.
C5_FiveRowsStrictlyDecreasing ==
    (Returned("rpPercentPlan") /\ args.dailyMax > 0)
    => /\ Len(plan.sets) = 5
       /\ \A i \in 2..Len(plan.sets) : plan.sets[i].weight < plan.sets[i - 1].weight

\* C5, amended: for a positive dailyMax rpPercentPlan returns 5 rows whose
\* weights never increase from one row to the next.
C5_FiveRowsNonIncreasing ==
    (Returned("rpPercentPlan") /\ args.dailyMax > 0)
    => /\ Len(plan.sets) = 5
       /\ \A i \in 2..Len(plan.sets) : plan.sets[i].weight <= plan.sets[i - 1].weight

\* C5 witness: a plan for a positive dailyMax in which two neighbouring rows
\* round to the same weight and two others differ.
C5_Witness ==
    /\ Returned("rpPercentPlan") /\ args.dailyMax > 0
    /\ \E i \in 2..Len(plan.sets) : plan.sets[i].weight = plan.sets[i - 1].weight
    /\ \E i \in 2..Len(plan.sets) : plan.sets[i].weight < plan.sets[i - 1].weight

\* C6: for a positive dailyMax, heavyReps is the sum of the reps of the
\* first three rows (90%, 85%, 80%) and of no other row, that is 6.
C6_HeavyRepsIsSix ==
    (Returned("rpPercentPlan") /\ args.dailyMax > 0)
    => /\ plan.heavyReps = parseInt(plan.sets[1].reps) + parseInt(plan.sets[2].reps)
                           + parseInt(plan.sets[3].reps)
       /\ plan.heavyReps = 6

\* the iterations i of 0..sets-1 up to which every running weight
\* topSingle - (j+1)*drop is above 0
LeadingPositive(topSingle, drop, sets) ==
    {i \in 0..(sets - 1) : \A j \in 0..i : topSingle - (j + 1) * drop > 0}

\* C7: for a non-zero dailyMax, rpFixedDropPlan returns at most sets back-off
\* rows, as many as there are leading iterations whose running weight
\* topSingle - (i+1)*drop is above 0.
C7_RowCountIsLeadingPositive ==
    (Returned("rpFixedDropPlan") /\ args.dailyMax # 0)
    => /\ Len(plan.sets) <= args.sets
       /\ \A top \in plan.topSingle :
            Len(plan.sets) = Cardinality(LeadingPositive(top, args.drop, args.sets))
       /\ plan.topSingle # Null

\* C7 witness: a plan cut short after some rows, at an iteration whose
\* running weight is exactly 0 or below, with positive running weights
\* possible after it only if the drop is negative.
C7_Witness ==
    /\ Returned("rpFixedDropPlan") /\ args.dailyMax # 0
    /\ Len(plan.sets) > 0
    /\ Len(plan.sets) < args.sets
    /\ \E top \in plan.topSingle : top - (Len(plan.sets) + 1) * args.drop = 0

\* C8: each planner returns its empty plan when an anchor or step parameter
\* is zero: ladderPlan for dailyMax or increment, rpPercentPlan for
\* dailyMax, rpFixedDropPlan for dailyMax or drop.
C8_EmptyPlanOnZeroParameter ==
    /\ (Returned("ladderPlan") /\ (args.dailyMax = 0 \/ args.increment = 0))
       => plan = [sets |-> <<>>, tonnage |-> 0, start |-> Null]
    /\ (Returned("rpPercentPlan") /\ args.dailyMax = 0)
       => plan = [sets |-> <<>>, tonnage |-> 0, heavyReps |-> 0]
    /\ (Returned("rpFixedDropPlan") /\ (args.dailyMax = 0 \/ args.drop = 0))
       => plan = [topSingle |-> Null, sets |-> <<>>, tonnage |-> 0]

\* C9: in a ladder built with a positive increment every row after the first
\* has one rep fewer than the row before it, the final row included.
C9_RepsDescendByOne ==
    (Returned("ladderPlan") /\ args.increment > 0)
    => \A i \in 2..Len(plan.sets) : plan.sets[i].reps = plan.sets[i - 1].reps - 1

\* C10: for a non-zero dailyMax and a positive drop, every back-off row of
\* rpFixedDropPlan has a rounded weight above 0.
C10_BackOffRowsPositive ==
    (Returned("rpFixedDropPlan") /\ args.dailyMax # 0 /\ args.drop > 0)
    => \A i \in 1..Len(plan.sets) : plan.sets[i].weight > 0

====
